---------------------------- MODULE Spec2Model ----------------------------
(***************************************************************************)
(* Cookie-consent subsystem of JobMatch+ (src/js/cookie.js and the dynamic *)
(* loader of src/unnamed/part_003).                                        *)
(*                                                                         *)
(* Time is counted in days since 1 January of EpochYear; a Date value is   *)
(* a day number, an ISO-8601 string is its civil form [y, m, d].  Timers   *)
(* of a page view are counted in milliseconds, in steps of BACK_DELAY.     *)
(***************************************************************************)
EXTENDS Integers, Sequences, FiniteSets, TLC

(***************************************************************************)
(* Program constants.                                                      *)
(***************************************************************************)
STORAGE_KEY == "cookiePreferences"
EXPIRY_MONTHS == 6
ANIMATION_DURATION == 300
BACK_DELAY == 100
FALLBACK_EXPIRY_DAYS == 6 * 30
RESOURCE_TIMEOUT == 5000
RETRY_ATTEMPTS == 3
RETRY_DELAY == 1000

(***************************************************************************)
(* Bounds of the model.                                                    *)
(***************************************************************************)
EpochYear == 2023
MaxDay == 440
WriteWindow == 12
MaxTimers == 3
MaxToasts == 2
MaxEvents == 2

(***************************************************************************)
(* The calendar behind Date: getFullYear / getMonth / getDate, the day     *)
(* number of a (year, month, day) whose month and day may overflow         *)
(* (ECMAScript MakeDay), setMonth, toISOString and new Date(isoString).    *)
(***************************************************************************)
IsLeap(Y) == (Y % 4 = 0 /\ Y % 100 # 0) \/ Y % 400 = 0

DaysInMonth(Y, m) ==
    IF m = 1 THEN (IF IsLeap(Y) THEN 29 ELSE 28)
    ELSE IF m \in {3, 5, 8, 10} THEN 30 ELSE 31

DaysInYear(Y) == IF IsLeap(Y) THEN 366 ELSE 365

RECURSIVE DaysBeforeYear(_)
DaysBeforeYear(Y) ==
    IF Y <= EpochYear THEN 0 ELSE DaysBeforeYear(Y - 1) + DaysInYear(Y - 1)

RECURSIVE DaysBeforeMonth(_, _)
DaysBeforeMonth(Y, m) ==
    IF m = 0 THEN 0 ELSE DaysBeforeMonth(Y, m - 1) + DaysInMonth(Y, m - 1)

MakeDay(Y, m, d) ==
    LET Y2 == Y + (m \div 12)
        m2 == m % 12
    IN  DaysBeforeYear(Y2) + DaysBeforeMonth(Y2, m2) + d - 1

RECURSIVE YearFrom(_, _)
YearFrom(t, Y) ==
    IF t < DaysInYear(Y) THEN Y ELSE YearFrom(t - DaysInYear(Y), Y + 1)

RECURSIVE MonthFrom(_, _, _)
MonthFrom(t, Y, m) ==
    IF t < DaysInMonth(Y, m) THEN m ELSE MonthFrom(t - DaysInMonth(Y, m), Y, m + 1)

getFullYear(t) == YearFrom(t, EpochYear)

getMonth(t) ==
    LET Y == getFullYear(t) IN MonthFrom(t - DaysBeforeYear(Y), Y, 0)

getDate(t) ==
    LET Y == getFullYear(t)
        m == getMonth(t)
    IN  t - DaysBeforeYear(Y) - DaysBeforeMonth(Y, m) + 1

setMonth(t, m) == MakeDay(getFullYear(t), m, getDate(t))

NoISO == [y |-> 0, m |-> 0, d |-> 0]

toISOString(t) == [y |-> getFullYear(t), m |-> getMonth(t) + 1, d |-> getDate(t)]

ParseISO(iso) == MakeDay(iso.y, iso.m - 1, iso.d)


(***************************************************************************)
(* Values.  A preference object has the four categories and a timestamp;   *)
(* a category is "true", "false" or "undefined" (the property is absent).  *)
(* The string kept under STORAGE_KEY is held by its JSON syntax:           *)
(*   kind    "absent" (getItem gives null), "empty" (""), "unparsable",    *)
(*           "null" / "scalar" (JSON text that is no object), "object";    *)
(*   prefsKind   "missing", "null", "false", "string" or "map";            *)
(*   expiryKind  "missing", "null", "garbage" (no date) or "iso".          *)
(***************************************************************************)
NoPrefs ==
    [essential |-> "undefined", analytics |-> "undefined",
     personalization |-> "undefined", ads |-> "undefined", timestamp |-> NoISO]

Bool2Str(b) == IF b THEN "true" ELSE "false"

RawOf(kind) ==
    [kind |-> kind, prefsKind |-> "missing", prefs |-> NoPrefs,
     expiryKind |-> "missing", expiry |-> NoISO, version |-> "undefined"]

Absent == RawOf("absent")

RawObject(prefsKind, prefs, expiryKind, expiry, version) ==
    [kind |-> "object", prefsKind |-> prefsKind, prefs |-> prefs,
     expiryKind |-> expiryKind, expiry |-> expiry, version |-> version]

\* JSON.stringify of { prefs, expiry, version } (cookie.js) or { prefs, expiry }.
JSONstringify(data) ==
    RawObject("map", data.prefs, "iso", data.expiry, data.version)

\* JSON.parse: throws on text that is no JSON, else gives the value.
JSONparse(raw) ==
    [threw |-> raw.kind \in {"empty", "unparsable"}, data |-> raw]

\* Reading a property of the parsed value: of null it throws a TypeError.
Falsy(k) == k \in {"missing", "null", "false"}

\* new Date(data.expiry) > now; an invalid date compares false with anything.
DateNotBefore(expiryKind, expiry, now) ==
    IF expiryKind # "iso" THEN FALSE ELSE ParseISO(expiry) >= now

DateAfter(expiryKind, expiry, now) ==
    IF expiryKind # "iso" THEN FALSE ELSE ParseISO(expiry) > now

(***************************************************************************)
(* CookieManager.hasValidPreferences: "true", "false", or "throw" for the  *)
(* body of the try block, and what the method returns with its catch.      *)
(***************************************************************************)
HasValidBody(raw, now) ==
    IF raw.kind \in {"absent", "empty"} THEN "false"
    ELSE IF JSONparse(raw).threw THEN "throw"
    ELSE LET data == JSONparse(raw).data IN
         IF data.kind = "null" THEN "throw"
         ELSE IF data.kind = "scalar" THEN "false"
         ELSE IF Falsy(data.expiryKind) \/ Falsy(data.prefsKind) THEN "false"
         ELSE Bool2Str(DateAfter(data.expiryKind, data.expiry, now))

hasValidPreferences(raw, now) ==
    LET r == HasValidBody(raw, now)
    IN  [value |-> (r = "true"), raised |-> FALSE]

(***************************************************************************)
(* CookieManager.getPreferences: data.prefs || null, null on any error.    *)
(***************************************************************************)
getPreferences(raw) ==
    IF raw.kind \in {"absent", "empty"} THEN [isNull |-> TRUE, prefs |-> NoPrefs]
    ELSE IF JSONparse(raw).threw \/ raw.kind = "null"
         THEN [isNull |-> TRUE, prefs |-> NoPrefs]
    ELSE IF raw.kind = "scalar" \/ Falsy(raw.prefsKind)
         THEN [isNull |-> TRUE, prefs |-> NoPrefs]
    ELSE [isNull |-> FALSE, prefs |-> raw.prefs]

(***************************************************************************)
(* The record savePreferences builds and the one the fallback banner's     *)
(* accept control builds.                                                  *)
(***************************************************************************)
ExpirySetMonth(now) == setMonth(now, EXPIRY_MONTHS)

ExpiryOf(now) == setMonth(now, getMonth(now) + EXPIRY_MONTHS)

SavedData(preferences, now) ==
    [prefs |-> preferences, expiry |-> toISOString(ExpiryOf(now)), version |-> "1.0"]

FallbackDataSixDays(now) ==
    [prefs |-> [NoPrefs EXCEPT !.essential = "true"],
     expiry |-> toISOString(now + 6),
     version |-> "undefined"]

FallbackData(now) ==
    [prefs |-> [NoPrefs EXCEPT !.essential = "true"],
     expiry |-> toISOString(now + FALLBACK_EXPIRY_DAYS),
     version |-> "undefined"]

(***************************************************************************)
(* The preference objects the three handlers build.                        *)
(***************************************************************************)
AcceptAllPrefs(now) ==
    [essential |-> "true", analytics |-> "true", personalization |-> "true",
     ads |-> "true", timestamp |-> toISOString(now)]

RejectEverything(now) ==
    [essential |-> "false", analytics |-> "false", personalization |-> "false",
     ads |-> "false", timestamp |-> toISOString(now)]

RejectAllPrefs(now) ==
    [essential |-> "true", analytics |-> "false", personalization |-> "false",
     ads |-> "false", timestamp |-> toISOString(now)]

FormPrefsAdsAsPersonalization(hasAnalytics, hasPersonalization, hasAds, now) ==
    [essential |-> "true", analytics |-> Bool2Str(hasAnalytics),
     personalization |-> Bool2Str(hasPersonalization),
     ads |-> Bool2Str(hasPersonalization), timestamp |-> toISOString(now)]

FormPrefs(hasAnalytics, hasPersonalization, hasAds, now) ==
    [essential |-> "true", analytics |-> Bool2Str(hasAnalytics),
     personalization |-> Bool2Str(hasPersonalization),
     ads |-> Bool2Str(hasAds), timestamp |-> toISOString(now)]

(***************************************************************************)
(* State.                                                                  *)
(*   now, store        the clock (a day number) and the string kept under  *)
(*                     STORAGE_KEY in localStorage                         *)
(*   page              "unloaded" or "loaded"                              *)
(*   markup            which #cookie-banner the document holds: "none",    *)
(*                     "full" (includes/cookie.html) or "fallback"         *)
(*   mgrBanner         this.banner of the CookieManager is not null        *)
(*   listeners         setupEventListeners has run                         *)
(*   bannerDisplay, bannerOpacity, bannerVisibleClass                      *)
(*                     banner.style.display / .opacity (with .transform),  *)
(*                     class "visible"                                     *)
(*   settingsHidden    #cookie-settings carries class "hidden"             *)
(*   contentDisplay, contentOpacity    style of .cookie-content            *)
(*   timers            pending setTimeout callbacks of the banner, in the  *)
(*                     order they were set: [kind, rem], rem in ms         *)
(*   toasts            toast elements in the document: [type, stage]       *)
(*   applied           window.cookiePreferences                            *)
(*   step              the last operation: its event, the phase it found   *)
(*                     (as isBannerVisible / isSettingsVisible gave it),   *)
(*                     its input and the calls it made                     *)
(*   storeAtLoad       the stored string the page view started with        *)
(*   events            operations of this page view (bounded by MaxEvents) *)
(*   lastWrite         the last successful setItem: [by, day, text]        *)
(*   loader            the dynamic loading of the banner by part_003: the  *)
(*                     document's readiness and elements, the state of     *)
(*                     CookieResourceLoader and of the DOMContentLoaded    *)
(*                     loader above it (fields at NewLoader)               *)
(***************************************************************************)
VARIABLES now, store, page, markup, mgrBanner, listeners,
          bannerDisplay, bannerOpacity, bannerVisibleClass,
          settingsHidden, contentDisplay, contentOpacity,
          timers, toasts, applied, step, events, lastWrite, storeAtLoad, loader

vars == <<now, store, page, markup, mgrBanner, listeners,
          bannerDisplay, bannerOpacity, bannerVisibleClass,
          settingsHidden, contentDisplay, contentOpacity,
          timers, toasts, applied, step, events, lastWrite, storeAtLoad, loader>>

\* One call made during an operation.
Call(op, prefs, rec, type) == [op |-> op, prefs |-> prefs, rec |-> rec, type |-> type]

NoInput == [analytics |-> FALSE, personalization |-> FALSE, ads |-> FALSE]

NoStep ==
    [event |-> "none", before |-> "Unloaded", shown |-> "Unloaded", input |-> NoInput,
     calls |-> <<>>]

\* The mutable state a handler works on, as a record.
Cur ==
    [store |-> store, listeners |-> listeners, mgrBanner |-> mgrBanner,
     bannerDisplay |-> bannerDisplay, bannerOpacity |-> bannerOpacity,
     bannerVisibleClass |-> bannerVisibleClass,
     settingsHidden |-> settingsHidden, contentDisplay |-> contentDisplay,
     contentOpacity |-> contentOpacity, timers |-> timers, toasts |-> toasts,
     applied |-> applied, calls |-> <<>>]

(***************************************************************************)
(* The state of the dynamic loading (part_003).                            *)
(*   mode              document.readyState as the file runs: "loading",    *)
(*                     "interactive" or "complete"; "absent" on a page     *)
(*                     that holds the banner itself                        *)
(*   fileRun, dcl      the file has run; DOMContentLoaded is "pending" or  *)
(*                     "fired"                                             *)
(*   legacyListener, loaderListener, bootstrapListener                     *)
(*                     DOMContentLoaded listeners: of the loader at the    *)
(*                     top of the file, of the CookieResourceLoader        *)
(*                     bootstrap, of cookie.js                             *)
(*   links, banners, scripts                                               *)
(*                     the document: link[href*="cookie.css"] elements,    *)
(*                     #cookie-banner elements in document order,          *)
(*                     script[src*="cookie.js"] elements                   *)
(*   executed, managers    runs of cookie.js, CookieManagers constructed   *)
(*   pc                of loadResourcesSequentially: "none", "css",        *)
(*                     "html", "backoff", "js", "done", "failed"           *)
(*   loadedResources   this.loadedResources                                *)
(*   attempt, outcomes, lastOutcome, delays                                *)
(*                     retryOperation: attempts begun, whether each        *)
(*                     "succeeded" or "failed", what the last fetch gave,  *)
(*                     the delays waited                                   *)
(*   cssLink, scriptEl, legacyLink, legacyScript                           *)
(*                     elements appended: "none", "loading", "loaded",     *)
(*                     "failed"                                            *)
(*   cssTimeout, htmlTimeout, jsTimeout    the timeout timers              *)
(*   errors            contexts handleLoadError was called with            *)
(*   legacy            the loader at the top of the file: "idle",          *)
(*                     "fetching", "done", "failed"                        *)
(*   log               what was done to the document, in order, with the   *)
(*                     elements the document held once it was done         *)
(***************************************************************************)
NoTimer == [state |-> "none", ms |-> 0]

NewLoader(mode) ==
    [mode |-> mode, fileRun |-> FALSE,
     dcl |-> IF mode = "complete" THEN "fired" ELSE "pending",
     legacyListener |-> FALSE, loaderListener |-> FALSE, bootstrapListener |-> FALSE,
     links |-> 0, banners |-> <<>>, scripts |-> 0, executed |-> 0, managers |-> 0,
     pc |-> "none", loadedResources |-> {}, attempt |-> 0, outcomes |-> <<>>,
     lastOutcome |-> "none", delays |-> <<>>,
     cssLink |-> "none", scriptEl |-> "none", legacyLink |-> "none",
     legacyScript |-> "none",
     cssTimeout |-> NoTimer, htmlTimeout |-> NoTimer, jsTimeout |-> NoTimer,
     errors |-> <<>>, legacy |-> "idle", log |-> <<>>]

NoLoader == NewLoader("absent")

\* The elements each markup holds (includes/cookie.html and the fallback).
MarkupHas(mk, id) ==
    CASE mk = "full" -> id \in {"cookie-banner", "cookie-settings", "cookie-content",
                                "cookiePreferencesForm", "accept-all", "reject-all",
                                "customize", "back"}
      [] mk = "fallback" -> id \in {"cookie-banner", "fallback-accept"}
      [] OTHER -> FALSE

(***************************************************************************)
(* Methods of CookieManager, each from the state record to the state       *)
(* record.  s.mgrBanner stands for this.banner; this.settings,             *)
(* this.cookieContent and this.form are taken in initDOM from the same     *)
(* document, so with markup "full" they are all present.                   *)
(***************************************************************************)
setTimer(s, kind, delay) ==
    [s EXCEPT !.timers = Append(@, [kind |-> kind, rem |-> delay])]

showBanner(s) ==
    IF s.mgrBanner
    THEN [s EXCEPT !.bannerDisplay = "block", !.bannerVisibleClass = TRUE,
                   !.calls = Append(@, Call("showBanner", NoPrefs, Absent, ""))]
    ELSE s

hideBanner(s) ==
    IF s.mgrBanner
    THEN setTimer([s EXCEPT !.bannerOpacity = "0",
                            !.calls = Append(@, Call("hideBanner", NoPrefs, Absent, ""))],
                  "hide", ANIMATION_DURATION)
    ELSE s

isBannerVisible(s) == s.mgrBanner /\ s.bannerDisplay # "none"

isSettingsVisible(s, mk) == MarkupHas(mk, "cookie-settings") /\ ~s.settingsHidden

showToast(s, type) ==
    [s EXCEPT !.toasts = Append(@, [type |-> type, stage |-> "created"]),
              !.calls = Append(@, Call("showToast", NoPrefs, Absent, type))]

showConfirmation(s) == showToast(s, "success")

showError(s) == showToast(s, "error")

applyPreferences(s, preferences) ==
    [s EXCEPT !.applied = preferences,
              !.calls = Append(@, Call("applyPreferences", preferences, Absent, ""))]

\* localStorage.setItem(STORAGE_KEY, text); throws stands for a storage fault.
setItem(s, text) ==
    [s EXCEPT !.store = text,
              !.calls = Append(@, Call("setItem", NoPrefs, text, ""))]

setItemThrows(s, text) ==
    [s EXCEPT !.calls = Append(@, Call("setItemThrew", NoPrefs, text, ""))]

Enter(s, method, preferences) ==
    [s EXCEPT !.calls = Append(@, Call(method, preferences, Absent, ""))]

savePreferencesWithoutApply(s, preferences, t, throws) ==
    LET text == JSONstringify(SavedData(preferences, t))
        s0 == Enter(s, "savePreferences", preferences)
    IN  IF throws
        THEN showError(setItemThrows(s0, text))
        ELSE showConfirmation(hideBanner(setItem(s0, text)))

savePreferences(s, preferences, t, throws) ==
    LET text == JSONstringify(SavedData(preferences, t))
        s0 == Enter(s, "savePreferences", preferences)
    IN  IF throws
        THEN showError(setItemThrows(s0, text))
        ELSE showConfirmation(hideBanner(applyPreferences(setItem(s0, text), preferences)))

handleAcceptAll(s, t, throws) == savePreferences(s, AcceptAllPrefs(t), t, throws)

handleRejectAll(s, t, throws) == savePreferences(s, RejectAllPrefs(t), t, throws)

handleCustomize(s, mk) ==
    IF ~MarkupHas(mk, "cookie-content") \/ ~MarkupHas(mk, "cookie-settings")
    THEN s
    ELSE setTimer([Enter(s, "handleCustomize", NoPrefs) EXCEPT !.contentOpacity = "0"],
                  "customize", ANIMATION_DURATION)

handleBack(s, mk) ==
    IF ~MarkupHas(mk, "cookie-content") \/ ~MarkupHas(mk, "cookie-settings")
    THEN s
    ELSE setTimer([Enter(s, "handleBack", NoPrefs) EXCEPT !.settingsHidden = TRUE],
                  "back", BACK_DELAY)

handleFormSubmit(s, hasAnalytics, hasPersonalization, hasAds, t, throws) ==
    savePreferences(s, FormPrefs(hasAnalytics, hasPersonalization, hasAds, t), t, throws)

handleKeyDown(s, mk, key, t, throws) ==
    IF ~isBannerVisible(s) THEN s
    ELSE IF key # "Escape" THEN s
    ELSE IF isSettingsVisible(s, mk) THEN handleBack(s, mk)
    ELSE handleRejectAll(s, t, throws)

documentClickRejects(s, tagName) ==
    IF tagName = "BUTTON" THEN handleRejectAll(s, now, FALSE) ELSE s

\* The click listener setupEventListeners puts on the document.
documentClick(s, tagName) ==
    IF tagName = "BUTTON" THEN hideBanner(s) ELSE s

showCookieSettings(s, mk) ==
    IF ~s.mgrBanner THEN s ELSE handleCustomize(showBanner(s), mk)

\* The callbacks handed to setTimeout.
timerCallback(s, kind) ==
    CASE kind = "hide" -> [s EXCEPT !.bannerDisplay = "none"]
      [] kind = "customize" -> [s EXCEPT !.contentDisplay = "none", !.settingsHidden = FALSE]
      [] kind = "back" -> [s EXCEPT !.contentDisplay = "block", !.contentOpacity = "1"]

\* The phase as the handlers read it, and the phase as the page shows it: the
\* banner is hidden once hideBanner has made it transparent and moved it away.
CodePhase(s, mk) ==
    IF ~isBannerVisible(s) THEN "Hidden"
    ELSE IF isSettingsVisible(s, mk) THEN "SettingsVisible"
    ELSE "MainVisible"

PhaseOf(s) ==
    IF s.bannerDisplay = "none" \/ s.bannerOpacity = "0" THEN "Hidden"
    ELSE IF ~s.settingsHidden THEN "SettingsVisible"
    ELSE "MainVisible"

initWithoutBannerTest(s, t) ==
    IF hasValidPreferences(s.store, t).value THEN hideBanner(s)
    ELSE showBanner([s EXCEPT !.listeners = TRUE])

initWithoutCheck(s, t) ==
    IF ~s.mgrBanner THEN s ELSE showBanner([s EXCEPT !.listeners = TRUE])

\* CookieManager.init, after initDOM has set this.banner.
init(s, t) ==
    IF ~s.mgrBanner THEN s
    ELSE IF hasValidPreferences(s.store, t).value THEN hideBanner(s)
    ELSE showBanner([s EXCEPT !.listeners = TRUE])

(***************************************************************************)
(* Page views.                                                             *)
(***************************************************************************)
StartDay == MakeDay(EpochYear, 7, 25)

\* A record as savePreferences wrote it on day w, and records of other shapes.
SavedOn(w) == JSONstringify(SavedData(RejectAllPrefs(w), w))

InitialStores(t) ==
    {Absent, RawOf("empty"), RawOf("unparsable"), RawOf("null"), RawOf("scalar"),
     SavedOn(t), SavedOn(t - 200),
     JSONstringify(FallbackData(t - 1)),
     RawObject("map", AcceptAllPrefs(t), "iso", toISOString(t), "1.0"),
     RawObject("map", AcceptAllPrefs(t), "iso", toISOString(t + 1), "1.0"),
     RawObject("map", AcceptAllPrefs(t), "missing", NoISO, "1.0"),
     RawObject("map", AcceptAllPrefs(t), "null", NoISO, "1.0"),
     RawObject("map", AcceptAllPrefs(t), "garbage", NoISO, "1.0"),
     RawObject("missing", NoPrefs, "iso", toISOString(t + 1), "1.0"),
     RawObject("null", NoPrefs, "iso", toISOString(t + 1), "undefined"),
     RawObject("false", NoPrefs, "iso", toISOString(t + 1), "undefined"),
     RawObject("string", NoPrefs, "iso", toISOString(t + 1), "undefined"),
     RawObject("string", NoPrefs, "iso", toISOString(t - 1), "undefined")}

\* One stored string of each kind a page load tells apart.
PageStores(t) ==
    {Absent, RawOf("unparsable"), SavedOn(t), SavedOn(t - 200),
     JSONstringify(FallbackData(t - 1)),
     RawObject("map", AcceptAllPrefs(t - 1), "missing", NoISO, "1.0")}

Blank ==
    [store |-> store, listeners |-> FALSE, mgrBanner |-> FALSE,
     bannerDisplay |-> "", bannerOpacity |-> "", bannerVisibleClass |-> FALSE,
     settingsHidden |-> TRUE, contentDisplay |-> "", contentOpacity |-> "",
     timers |-> <<>>, toasts |-> <<>>, applied |-> NoPrefs, calls |-> <<>>]

NoWrite == [by |-> "none", day |-> 0, text |-> Absent]

\* The successful setItem calls among calls, in order.
Writes(calls) == SelectSeq(calls, LAMBDA c : c.op = "setItem")

LastWriteAfter(calls, event) ==
    IF Writes(calls) = <<>> THEN lastWrite
    ELSE [by |-> IF event = "fallback-accept" THEN "fallback" ELSE "savePreferences",
          day |-> now, text |-> Writes(calls)[Len(Writes(calls))].rec]

\* The next state is the state record s.
Becomes(s) ==
    /\ store' = s.store
    /\ listeners' = s.listeners
    /\ mgrBanner' = s.mgrBanner
    /\ bannerDisplay' = s.bannerDisplay
    /\ bannerOpacity' = s.bannerOpacity
    /\ bannerVisibleClass' = s.bannerVisibleClass
    /\ settingsHidden' = s.settingsHidden
    /\ contentDisplay' = s.contentDisplay
    /\ contentOpacity' = s.contentOpacity
    /\ timers' = s.timers
    /\ toasts' = s.toasts
    /\ applied' = s.applied

\* The operation named event, with its input, took the state to s.
Logged(s, event, input) ==
    /\ Becomes(s)
    /\ step' = [event |-> event,
                before |-> IF page = "loaded" THEN CodePhase(Cur, markup) ELSE "Unloaded",
                shown |-> IF page = "loaded" THEN PhaseOf(Cur) ELSE "Unloaded",
                input |-> input, calls |-> s.calls]
    /\ lastWrite' = LastWriteAfter(s.calls, event)

Within(s) == Len(s.timers) <= MaxTimers /\ Len(s.toasts) <= MaxToasts

Init ==
    /\ now = StartDay
    /\ store \in PageStores(now)
    /\ page = "unloaded"
    /\ markup = "none"
    /\ mgrBanner = FALSE
    /\ listeners = FALSE
    /\ bannerDisplay = ""
    /\ bannerOpacity = ""
    /\ bannerVisibleClass = FALSE
    /\ settingsHidden = TRUE
    /\ contentDisplay = ""
    /\ contentOpacity = ""
    /\ timers = <<>>
    /\ toasts = <<>>
    /\ applied = NoPrefs
    /\ step = NoStep
    /\ events = 0
    /\ lastWrite = NoWrite
    /\ storeAtLoad = Absent
    /\ loader = NoLoader

\* DOMContentLoaded: new CookieManager(), whose constructor runs init.
PageLoad(mk) ==
    /\ page = "unloaded"
    /\ page' = "loaded"
    /\ markup' = mk
    /\ events' = 0
    /\ storeAtLoad' = store
    /\ Logged(init([Blank EXCEPT !.mgrBanner = MarkupHas(mk, "cookie-banner")], now),
              "init", NoInput)
    /\ UNCHANGED <<now, loader>>

\* The page view ends: the document, its timers and window go.
Unload ==
    /\ page = "loaded"
    /\ page' = "unloaded"
    /\ markup' = "none"
    /\ events' = 0
    /\ storeAtLoad' = Absent
    /\ Logged(Blank, "none", NoInput)
    /\ UNCHANGED <<now, loader>>

\* An operation of the page view: a user event or a call from the page.
OperationWith(s, event, input) ==
    /\ page = "loaded"
    /\ events < MaxEvents
    /\ Within(s)
    /\ events' = events + 1
    /\ Logged(s, event, input)
    /\ UNCHANGED <<now, page, markup, storeAtLoad, loader>>

Operation(s, event) == OperationWith(s, event, NoInput)

\* Where a control can be clicked: the banner and its panel are rendered.
Rendered(id) ==
    /\ MarkupHas(markup, id)
    /\ bannerDisplay # "none"
    /\ id \in {"accept-all", "reject-all", "customize"} => contentDisplay # "none"
    /\ id \in {"back", "cookiePreferencesForm"} => ~settingsHidden

\* A click on a control: its own listener, then the document's.
Click(s, tagName) == IF listeners THEN documentClick(s, tagName) ELSE s

TagNames == {"BUTTON", "SPAN"}

ClickAcceptAll(tagName, throws) ==
    /\ Rendered("accept-all")
    /\ Operation(Click(IF listeners THEN handleAcceptAll(Cur, now, throws) ELSE Cur,
                       tagName), "accept-all")

ClickRejectAll(tagName, throws) ==
    /\ Rendered("reject-all")
    /\ Operation(Click(IF listeners THEN handleRejectAll(Cur, now, throws) ELSE Cur,
                       tagName), "reject-all")

ClickCustomize(tagName) ==
    /\ Rendered("customize")
    /\ Operation(Click(IF listeners THEN handleCustomize(Cur, markup) ELSE Cur,
                       tagName), "customize")

ClickBack(tagName) ==
    /\ Rendered("back")
    /\ Operation(Click(IF listeners THEN handleBack(Cur, markup) ELSE Cur,
                       tagName), "back")

\* A click on the form's submit control: the click reaches the document, then
\* the form's submit event is handled.
SubmitForm(hasAnalytics, hasPersonalization, hasAds, tagName, throws) ==
    /\ Rendered("cookiePreferencesForm")
    /\ listeners
    /\ OperationWith(handleFormSubmit(Click(Cur, tagName), hasAnalytics,
                                      hasPersonalization, hasAds, now, throws),
                     "submit",
                     [analytics |-> hasAnalytics, personalization |-> hasPersonalization,
                      ads |-> hasAds])

\* Without the submit listener nothing prevents the default: the form is
\* submitted and the page is left.
SubmitFormDefault ==
    /\ Rendered("cookiePreferencesForm")
    /\ ~listeners
    /\ page = "loaded"
    /\ page' = "unloaded"
    /\ markup' = "none"
    /\ events' = 0
    /\ storeAtLoad' = Absent
    /\ Logged(Blank, "submit-default", NoInput)
    /\ UNCHANGED <<now, loader>>

KeyEscape(throws) ==
    Operation(IF listeners THEN handleKeyDown(Cur, markup, "Escape", now, throws) ELSE Cur,
              "escape")

\* A click on a button that is no control of the banner.
ClickOtherButton ==
    Operation(Click(Cur, "BUTTON"), "other-button")

ShowCookieSettings ==
    Operation(showCookieSettings(Cur, markup), "showCookieSettings")

\* CookieResourceLoader.handleLoadError: the fallback banner, when the
\* document holds no #cookie-banner.
InjectFallback ==
    /\ page = "loaded"
    /\ markup = "none"
    /\ markup' = "fallback"
    /\ Logged([Cur EXCEPT !.bannerDisplay = ""], "fallback-injected", NoInput)
    /\ UNCHANGED <<now, page, events, storeAtLoad, loader>>

\* The fallback banner's button: its onclick, then the document's listener.
FallbackAccept(throws) ==
    /\ markup = "fallback"
    /\ bannerDisplay # "none"
    /\ LET s1 == [Cur EXCEPT !.bannerDisplay = "none"]
           text == JSONstringify(FallbackData(now))
           s2 == IF throws THEN setItemThrows(s1, text) ELSE setItem(s1, text)
       IN  Operation(Click(s2, "BUTTON"), "fallback-accept")

(***************************************************************************)
(* Timers.  Time passes in steps of BACK_DELAY; a timer whose time has     *)
(* come runs before more time passes, after the timers of the same delay   *)
(* set before it.                                                          *)
(***************************************************************************)
Delay(kind) == IF kind = "back" THEN BACK_DELAY ELSE ANIMATION_DURATION

Elapse ==
    /\ page = "loaded"
    /\ timers # <<>>
    /\ \A i \in 1..Len(timers) : timers[i].rem > 0
    /\ timers' = [i \in 1..Len(timers) |->
                    [timers[i] EXCEPT !.rem = IF @ > BACK_DELAY THEN @ - BACK_DELAY ELSE 0]]
    /\ UNCHANGED <<now, store, page, markup, mgrBanner, listeners, bannerDisplay,
                   bannerOpacity, bannerVisibleClass, settingsHidden, contentDisplay,
                   contentOpacity, toasts, applied, step, events, lastWrite,
                   storeAtLoad, loader>>

Remove(seq, i) == [j \in 1..(Len(seq) - 1) |-> IF j < i THEN seq[j] ELSE seq[j + 1]]

FireTimer(i) ==
    /\ page = "loaded"
    /\ i \in 1..Len(timers)
    /\ timers[i].rem = 0
    /\ \A j \in 1..(i - 1) :
          timers[j].rem = 0 => Delay(timers[j].kind) > Delay(timers[i].kind)
    /\ Becomes(timerCallback([Cur EXCEPT !.timers = Remove(timers, i)], timers[i].kind))
    /\ UNCHANGED <<now, page, markup, events, step, lastWrite, storeAtLoad, loader>>

(***************************************************************************)
(* Toasts: shown after 100 ms, faded after 3000 ms, removed 300 ms later;  *)
(* each toast's timers run after those of the toasts made before it.       *)
(***************************************************************************)
StageRank(stage) == CASE stage = "created" -> 0 [] stage = "shown" -> 1 [] OTHER -> 2

ToastStepNeverRemoves(i) ==
    /\ page = "loaded"
    /\ i \in 1..Len(toasts)
    /\ \A j \in 1..(i - 1) : StageRank(toasts[j].stage) > StageRank(toasts[i].stage)
    /\ toasts' = CASE toasts[i].stage = "created" -> [toasts EXCEPT ![i].stage = "shown"]
                   [] OTHER -> [toasts EXCEPT ![i].stage = "fading"]
    /\ UNCHANGED <<now, store, page, markup, mgrBanner, listeners, bannerDisplay,
                   bannerOpacity, bannerVisibleClass, settingsHidden, contentDisplay,
                   contentOpacity, timers, applied, step, events, lastWrite,
                   storeAtLoad, loader>>

ToastStep(i) ==
    /\ page = "loaded"
    /\ i \in 1..Len(toasts)
    /\ \A j \in 1..(i - 1) : StageRank(toasts[j].stage) > StageRank(toasts[i].stage)
    /\ toasts' = CASE toasts[i].stage = "created" -> [toasts EXCEPT ![i].stage = "shown"]
                   [] toasts[i].stage = "shown" -> [toasts EXCEPT ![i].stage = "fading"]
                   [] OTHER -> Remove(toasts, i)
    /\ UNCHANGED <<now, store, page, markup, mgrBanner, listeners, bannerDisplay,
                   bannerOpacity, bannerVisibleClass, settingsHidden, contentDisplay,
                   contentOpacity, timers, applied, step, events, lastWrite,
                   storeAtLoad, loader>>

\* What can happen while a page view lasts.
InView ==
    \/ \E tg \in TagNames, th \in BOOLEAN : ClickAcceptAll(tg, th)
    \/ \E tg \in TagNames, th \in BOOLEAN : ClickRejectAll(tg, th)
    \/ \E tg \in TagNames : ClickCustomize(tg)
    \/ \E tg \in TagNames : ClickBack(tg)
    \/ \E a \in BOOLEAN, p \in BOOLEAN, d \in BOOLEAN, tg \in TagNames, th \in BOOLEAN :
          SubmitForm(a, p, d, tg, th)
    \/ SubmitFormDefault
    \/ \E th \in BOOLEAN : KeyEscape(th)
    \/ ClickOtherButton
    \/ ShowCookieSettings
    \/ InjectFallback
    \/ \E th \in BOOLEAN : FallbackAccept(th)
    \/ Elapse
    \/ \E i \in 1..MaxTimers : FireTimer(i)
    \/ \E i \in 1..MaxToasts : ToastStep(i)

Next ==
    \/ \E mk \in {"full", "none"} : PageLoad(mk)
    \/ Unload
    \/ InView

Spec == Init /\ [][Next]_vars

\* The timers of showToast run while the page stays open.
ToastTimers == \E i \in 1..Len(toasts) : ToastStep(i)

\* One page view that stays open, from the state new CookieManager() leaves
\* with no record stored and with a valid one.
InitView ==
    /\ now = StartDay
    /\ store \in {Absent, SavedOn(now)}
    /\ page = "loaded"
    /\ markup \in {"full", "none"}
    /\ LET s == init([Blank EXCEPT !.mgrBanner = MarkupHas(markup, "cookie-banner")], now)
       IN  /\ mgrBanner = s.mgrBanner
           /\ listeners = s.listeners
           /\ bannerDisplay = s.bannerDisplay
           /\ bannerOpacity = s.bannerOpacity
           /\ bannerVisibleClass = s.bannerVisibleClass
           /\ settingsHidden = s.settingsHidden
           /\ contentDisplay = s.contentDisplay
           /\ contentOpacity = s.contentOpacity
           /\ timers = s.timers
           /\ toasts = s.toasts
           /\ applied = s.applied
           /\ step = [NoStep EXCEPT !.event = "init", !.calls = s.calls]
    /\ events = 0
    /\ lastWrite = NoWrite
    /\ storeAtLoad = store
    /\ loader = NoLoader

SpecLive == InitView /\ [][InView]_vars /\ WF_vars(ToastTimers)

(***************************************************************************)
(* The store over the months.  A visit is a page view seen from the store  *)
(* once the page is left: on the days up to StartDay + WriteWindow the     *)
(* user saves a preference set, or accepts the fallback banner; days pass  *)
(* up to MaxDay.                                                           *)
(***************************************************************************)
Choices == {"true", "false"}

\* Preference sets with essential = true.
PrefSets(t) ==
    {[essential |-> "true", analytics |-> a, personalization |-> p, ads |-> d,
      timestamp |-> ts] :
        a \in Choices, p \in Choices, d \in Choices, ts \in {toISOString(t), NoISO}}

InitStore ==
    /\ now = StartDay
    /\ store \in InitialStores(StartDay + 3)
    /\ page = "unloaded"
    /\ markup = "none"
    /\ mgrBanner = FALSE
    /\ listeners = FALSE
    /\ bannerDisplay = ""
    /\ bannerOpacity = ""
    /\ bannerVisibleClass = FALSE
    /\ settingsHidden = TRUE
    /\ contentDisplay = ""
    /\ contentOpacity = ""
    /\ timers = <<>>
    /\ toasts = <<>>
    /\ applied = NoPrefs
    /\ step = NoStep
    /\ events = 0
    /\ lastWrite = NoWrite
    /\ storeAtLoad = Absent
    /\ loader = NoLoader

Tick ==
    /\ page = "unloaded"
    /\ now < MaxDay
    /\ now' = now + 1
    /\ UNCHANGED <<store, page, markup, mgrBanner, listeners, bannerDisplay,
                   bannerOpacity, bannerVisibleClass, settingsHidden, contentDisplay,
                   contentOpacity, timers, toasts, applied, step, events, lastWrite,
                   storeAtLoad, loader>>

VisitSave(preferences) ==
    /\ page = "unloaded"
    /\ now <= StartDay + WriteWindow
    /\ LET s == savePreferences(showBanner([Blank EXCEPT !.mgrBanner = TRUE]),
                                preferences, now, FALSE)
       IN  /\ store' = s.store
           /\ lastWrite' = LastWriteAfter(s.calls, "visit")
           /\ step' = [NoStep EXCEPT !.event = "visit", !.calls = s.calls]
    /\ UNCHANGED <<now, page, markup, mgrBanner, listeners, bannerDisplay,
                   bannerOpacity, bannerVisibleClass, settingsHidden, contentDisplay,
                   contentOpacity, timers, toasts, applied, events, storeAtLoad,
                   loader>>

VisitFallback ==
    /\ page = "unloaded"
    /\ now <= StartDay + WriteWindow
    /\ LET s == setItem(Blank, JSONstringify(FallbackData(now)))
       IN  /\ store' = s.store
           /\ lastWrite' = LastWriteAfter(s.calls, "fallback-accept")
           /\ step' = [NoStep EXCEPT !.event = "fallback-accept", !.calls = s.calls]
    /\ UNCHANGED <<now, page, markup, mgrBanner, listeners, bannerDisplay,
                   bannerOpacity, bannerVisibleClass, settingsHidden, contentDisplay,
                   contentOpacity, timers, toasts, applied, events, storeAtLoad,
                   loader>>

NextStore ==
    \/ Tick
    \/ \E preferences \in PrefSets(now) : VisitSave(preferences)
    \/ VisitFallback

SpecStore == InitStore /\ [][NextStore]_vars

(***************************************************************************)
(* The dynamic loading of the banner (part_003): CookieResourceLoader and, *)
(* at the top of the same file, the DOMContentLoaded loader.  Methods go   *)
(* from the loader state l to the loader state; an await of a promise      *)
(* already settled goes on in the same step.                               *)
(***************************************************************************)
Armed == [state |-> "armed", ms |-> RESOURCE_TIMEOUT]

Cleared(timer) == [timer EXCEPT !.state = IF @ = "armed" THEN "cleared" ELSE @]

Fired(timer) == [timer EXCEPT !.state = "fired"]

Logs(l, who, what) ==
    [l EXCEPT !.log = Append(@, [who |-> who, what |-> what, banners |-> Len(l.banners),
                                 links |-> l.links, scripts |-> l.scripts])]

Add(l, type) == [l EXCEPT !.loadedResources = @ \cup {type}]

createFallbackBanner(l) ==
    Logs([l EXCEPT !.banners = Append(@, "fallback")], "loader", "fallback-injected")

handleLoadError(l, context) ==
    LET l1 == [l EXCEPT !.errors = Append(@, context)]
    IN  IF l1.banners = <<>> THEN createFallbackBanner(l1) ELSE l1

\* The catch of loadResourcesSequentially, and its end.
Rejected(l) == handleLoadError([l EXCEPT !.pc = "failed"], "sequential_loading")

Resolved(l) == [l EXCEPT !.pc = "done"]

loadJS(l) ==
    IF "js" \in l.loadedResources THEN Resolved(l)
    ELSE IF l.scripts > 0 THEN Resolved(Logs(Add(l, "js"), "loader", "script-present"))
    ELSE Logs([l EXCEPT !.scripts = @ + 1, !.scriptEl = "loading",
                        !.jsTimeout = Armed, !.pc = "js"],
              "loader", "script-appended")

\* One call of the operation loadHTML hands to retryOperation: the fetch begins.
fetchHTML(l) ==
    Logs([l EXCEPT !.attempt = @ + 1, !.htmlTimeout = Armed, !.pc = "html"],
         "loader", "fetch-start")

loadHTML(l) ==
    IF "html" \in l.loadedResources THEN loadJS(l) ELSE fetchHTML(l)

loadCSS(l) ==
    IF "css" \in l.loadedResources THEN loadHTML(l)
    ELSE IF l.links > 0 THEN loadHTML(Logs(Add(l, "css"), "loader", "css-present"))
    ELSE Logs([l EXCEPT !.links = @ + 2, !.cssLink = "loading",
                        !.cssTimeout = Armed, !.pc = "css"],
              "loader", "css-appended")

loadResourcesSequentially(l) == loadCSS(l)

\* new CookieResourceLoader(): the constructor calls init.
CookieResourceLoader(l) == loadResourcesSequentially(l)

\* How a fetch of the markup can end; only "valid" passes the checks of
\* loadHTML and injectHTML.
HtmlOutcomes ==
    {"valid", "empty", "no-anchor", "no-element", "not-ok", "network-error", "timeout"}

injectHTML(l) ==
    IF l.banners # <<>> THEN Logs(l, "loader", "markup-present")
    ELSE Logs([l EXCEPT !.banners = Append(@, "full")], "loader", "markup-injected")

\* Math.random() * 500, at its ends.
Jitters == {0, 499}

BackoffDelay(attempt, jitter) == RETRY_DELAY * 2 ^ (attempt - 1) + jitter

\* What the fetch gave, as loadHTML and injectHTML look at it.
Response(outcome) ==
    [settled |-> outcome \notin {"network-error", "timeout"},
     ok |-> outcome # "not-ok",
     blank |-> outcome = "empty",
     mentionsBanner |-> outcome \in {"valid", "no-element"},
     hasBannerElement |-> outcome = "valid"]

AcceptsAnyAnswer(outcome) == Response(outcome).settled /\ Response(outcome).ok

\* The operation of loadHTML returns instead of throwing.
Accepts(outcome) ==
    LET r == Response(outcome)
    IN  r.settled /\ r.ok /\ ~r.blank /\ r.mentionsBanner /\ r.hasBannerElement

Ended(outcome) == IF Accepts(outcome) THEN "succeeded" ELSE "failed"

retryOperationWithoutBudget(l, outcome, jitter) ==
    LET l0 == [l EXCEPT !.outcomes = Append(@, Ended(outcome)), !.lastOutcome = outcome,
                        !.htmlTimeout = IF outcome = "timeout" THEN Fired(@)
                                        ELSE Cleared(@)]
    IN  IF Accepts(outcome) THEN loadJS(Add(injectHTML(l0), "html"))
        ELSE IF l.attempt < RETRY_ATTEMPTS + 1
             THEN [l0 EXCEPT !.pc = "backoff",
                             !.delays = Append(@, BackoffDelay(l.attempt, jitter))]
        ELSE Rejected(l0)

\* retryOperation, as the attempt in flight ends with outcome.
retryOperation(l, outcome, jitter) ==
    LET l0 == [l EXCEPT !.outcomes = Append(@, Ended(outcome)), !.lastOutcome = outcome,
                        !.htmlTimeout = IF outcome = "timeout" THEN Fired(@)
                                        ELSE Cleared(@)]
    IN  IF Accepts(outcome) THEN loadJS(Add(injectHTML(l0), "html"))
        ELSE IF l.attempt < RETRY_ATTEMPTS
             THEN [l0 EXCEPT !.pc = "backoff",
                             !.delays = Append(@, BackoffDelay(l.attempt, jitter))]
        ELSE Rejected(l0)

getLoadingStatus(l) ==
    [loaded |-> l.loadedResources, isComplete |-> Cardinality(l.loadedResources) >= 3]

\* cookie.js runs: it sets its DOMContentLoaded listener.
ExecuteCookieJs(l) ==
    [l EXCEPT !.executed = @ + 1,
              !.bootstrapListener = @ \/ l.dcl = "pending"]

\* The DOMContentLoaded listener at the top of the file, up to its fetch.
legacyHandler(l) ==
    Logs(Logs([l EXCEPT !.links = @ + 1, !.legacyLink = "loading", !.legacy = "fetching"],
              "legacy", "css-appended"),
         "legacy", "fetch-start")

LegacyOutcomes == {"ok-banner", "ok-other", "not-ok", "network-error"}

\* Its then-callbacks and its catch.
legacyThen(l, outcome) ==
    IF outcome \in {"not-ok", "network-error"} THEN [l EXCEPT !.legacy = "failed"]
    ELSE Logs(Logs([l EXCEPT !.banners = IF outcome = "ok-banner"
                                         THEN Append(@, "full") ELSE @,
                             !.scripts = @ + 1, !.legacyScript = "loading",
                             !.legacy = "done"],
                   "legacy", "markup-injected"),
              "legacy", "script-appended")

(***************************************************************************)
(* A page view with the dynamic loading.  The network answers in any       *)
(* order and in any way; a timer runs when nothing has cleared it.         *)
(***************************************************************************)
PageVars ==
    <<now, store, page, markup, mgrBanner, listeners, bannerDisplay, bannerOpacity,
      bannerVisibleClass, settingsHidden, contentDisplay, contentOpacity, timers,
      toasts, applied, step, events, lastWrite, storeAtLoad>>

Modes == {"loading", "interactive", "complete"}

InitLoader ==
    /\ now = StartDay
    /\ store \in {Absent, SavedOn(StartDay)}
    /\ page = "unloaded"
    /\ markup = "none"
    /\ mgrBanner = FALSE
    /\ listeners = FALSE
    /\ bannerDisplay = ""
    /\ bannerOpacity = ""
    /\ bannerVisibleClass = FALSE
    /\ settingsHidden = TRUE
    /\ contentDisplay = ""
    /\ contentOpacity = ""
    /\ timers = <<>>
    /\ toasts = <<>>
    /\ applied = NoPrefs
    /\ step = NoStep
    /\ events = 0
    /\ lastWrite = NoWrite
    /\ storeAtLoad = Absent
    /\ loader \in {NewLoader(mode) : mode \in Modes}

\* part_003 runs: the first listener is set, and the bootstrap at its end
\* either sets a listener or constructs the loader.
RunFile ==
    /\ ~loader.fileRun
    /\ LET l == [loader EXCEPT !.fileRun = TRUE, !.legacyListener = TRUE]
       IN  loader' = IF loader.mode = "loading"
                     THEN [l EXCEPT !.loaderListener = TRUE]
                     ELSE CookieResourceLoader(l)
    /\ UNCHANGED PageVars

\* DOMContentLoaded: its listeners run in the order they were set; the one
\* of cookie.js constructs the CookieManager.
DOMContentLoaded ==
    /\ loader.fileRun
    /\ loader.dcl = "pending"
    /\ LET l1 == [loader EXCEPT !.dcl = "fired"]
           l2 == IF l1.legacyListener THEN legacyHandler(l1) ELSE l1
           l3 == IF l2.loaderListener THEN CookieResourceLoader(l2) ELSE l2
           mk == IF l3.banners = <<>> THEN "none" ELSE l3.banners[1]
       IN  IF l3.bootstrapListener
           THEN /\ loader' = [l3 EXCEPT !.managers = @ + 1]
                /\ page' = "loaded"
                /\ markup' = mk
                /\ events' = 0
                /\ storeAtLoad' = store
                /\ Logged(init([Blank EXCEPT !.mgrBanner = MarkupHas(mk, "cookie-banner")],
                               now),
                          "init", NoInput)
                /\ UNCHANGED now
           ELSE /\ loader' = l3
                /\ UNCHANGED PageVars

\* link.onload, link.onerror and the timeout of loadCSS.
CssLoad ==
    /\ loader.cssLink = "loading"
    /\ LET l == Logs([loader EXCEPT !.cssLink = "loaded", !.cssTimeout = Cleared(@)],
                     "loader", "css-loaded")
       IN  loader' = IF loader.cssTimeout.state = "armed"
                     THEN loadHTML(Add(l, "css"))
                     ELSE Add(l, "css")
    /\ UNCHANGED PageVars

CssError ==
    /\ loader.cssLink = "loading"
    /\ LET l == [loader EXCEPT !.cssLink = "failed", !.cssTimeout = Cleared(@)]
       IN  loader' = IF loader.cssTimeout.state = "armed" THEN Rejected(l) ELSE l
    /\ UNCHANGED PageVars

CssTimeout ==
    /\ loader.cssTimeout.state = "armed"
    /\ loader' = Rejected([loader EXCEPT !.cssTimeout = Fired(@)])
    /\ UNCHANGED PageVars

\* The fetch of the markup ends.
HtmlResponse(outcome, jitter) ==
    /\ loader.pc = "html"
    /\ loader' = retryOperation(loader, outcome, jitter)
    /\ UNCHANGED PageVars

\* The delay of retryOperation is over: the next attempt.
BackoffEnd ==
    /\ loader.pc = "backoff"
    /\ loader' = fetchHTML(loader)
    /\ UNCHANGED PageVars

\* The script of loadJS is loaded and run, fails, or its timeout runs.
ScriptLoad ==
    /\ loader.scriptEl = "loading"
    /\ LET l == ExecuteCookieJs([loader EXCEPT !.scriptEl = "loaded",
                                               !.jsTimeout = Cleared(@)])
       IN  loader' = IF loader.jsTimeout.state = "armed"
                     THEN Resolved(Add(l, "js"))
                     ELSE Add(l, "js")
    /\ UNCHANGED PageVars

ScriptError ==
    /\ loader.scriptEl = "loading"
    /\ LET l == [loader EXCEPT !.scriptEl = "failed", !.jsTimeout = Cleared(@)]
       IN  loader' = IF loader.jsTimeout.state = "armed" THEN Rejected(l) ELSE l
    /\ UNCHANGED PageVars

ScriptTimeout ==
    /\ loader.jsTimeout.state = "armed"
    /\ loader' = Rejected([loader EXCEPT !.jsTimeout = Fired(@)])
    /\ UNCHANGED PageVars

\* The loader at the top of the file: its stylesheet, its fetch, its script.
LegacyCssLoad ==
    /\ loader.legacyLink = "loading"
    /\ loader' = Logs([loader EXCEPT !.legacyLink = "loaded"], "legacy", "css-loaded")
    /\ UNCHANGED PageVars

LegacyResponse(outcome) ==
    /\ loader.legacy = "fetching"
    /\ loader' = legacyThen(loader, outcome)
    /\ UNCHANGED PageVars

LegacyScriptLoad ==
    /\ loader.legacyScript = "loading"
    /\ loader' = ExecuteCookieJs([loader EXCEPT !.legacyScript = "loaded"])
    /\ UNCHANGED PageVars

NextLoader ==
    \/ RunFile
    \/ DOMContentLoaded
    \/ CssLoad
    \/ CssError
    \/ CssTimeout
    \/ \E outcome \in HtmlOutcomes, jitter \in Jitters : HtmlResponse(outcome, jitter)
    \/ BackoffEnd
    \/ ScriptLoad
    \/ ScriptError
    \/ ScriptTimeout
    \/ LegacyCssLoad
    \/ \E outcome \in LegacyOutcomes : LegacyResponse(outcome)
    \/ LegacyScriptLoad

SpecLoader == InitLoader /\ [][NextLoader]_vars

(***************************************************************************)
(* Vocabulary of the properties.                                           *)
(***************************************************************************)
Phase == PhaseOf(Cur)

Valid(raw) == hasValidPreferences(raw, now).value

\* Civil dates compared field by field.
ISOAfter(a, b) ==
    \/ a.y > b.y
    \/ a.y = b.y /\ a.m > b.m
    \/ a.y = b.y /\ a.m = b.m /\ a.d > b.d

\* The civil date six months after a day, on the last day of the month when
\* that month is too short.
SixMonthsAfter(w) ==
    LET c == toISOString(w)
        Y == IF c.m + 6 > 12 THEN c.y + 1 ELSE c.y
        m == IF c.m + 6 > 12 THEN c.m - 6 ELSE c.m + 6
        last == DaysInMonth(Y, m - 1)
    IN  [y |-> Y, m |-> m, d |-> IF c.d > last THEN last ELSE c.d]

\* A field that holds a value: it is there and is not null, false or empty.
Holds(kind) == kind \notin {"missing", "null", "false"}

Categories(prefs) ==
    [essential |-> prefs.essential, analytics |-> prefs.analytics,
     personalization |-> prefs.personalization, ads |-> prefs.ads]

AllTrue ==
    [essential |-> "true", analytics |-> "true", personalization |-> "true", ads |-> "true"]

EssentialOnly ==
    [essential |-> "true", analytics |-> "false", personalization |-> "false",
     ads |-> "false"]

\* Calls of the last operation: by method, and the setItem calls made, thrown or not.
CallsTo(calls, op) == SelectSeq(calls, LAMBDA c : c.op = op)

Attempts(calls) == SelectSeq(calls, LAMBDA c : c.op \in {"setItem", "setItemThrew"})

(***************************************************************************)
(* C1.  After init has run with the banner element present, the phase is   *)
(* decided by the validity of the stored record alone: Hidden when         *)
(* hasValidPreferences is true, MainVisible with the banner shown          *)
(* otherwise, and never SettingsVisible.                                   *)
(***************************************************************************)
C1_InitPhaseByValidity ==
    (page = "loaded" /\ step.event = "init" /\ mgrBanner) =>
        /\ Phase # "SettingsVisible"
        /\ Valid(storeAtLoad) => Phase = "Hidden"
        /\ ~Valid(storeAtLoad) => Phase = "MainVisible" /\ bannerDisplay = "block"

C1_Witness ==
    /\ page = "loaded" /\ step.event = "init" /\ mgrBanner
    /\ Valid(storeAtLoad)
    /\ Phase = "Hidden" /\ timers = <<>>

(***************************************************************************)
(* C2.  hasValidPreferences is true exactly when the stored string parses  *)
(* to an object that holds prefs and expiry with the expiry date strictly  *)
(* later than now; it is false for every record whose expiry has passed,   *)
(* whatever its prefs, and false, without raising, for absent, unparsable  *)
(* or field-missing data.                                                  *)
(***************************************************************************)
C2_ValidIffUnexpired ==
    LET r == hasValidPreferences(store, now)
        today == toISOString(now)
    IN  /\ ~r.raised
        /\ r.value <=> /\ store.kind = "object"
                       /\ Holds(store.prefsKind) /\ Holds(store.expiryKind)
                       /\ store.expiryKind = "iso" /\ ISOAfter(store.expiry, today)
        /\ (store.kind = "object" /\ store.expiryKind = "iso"
              /\ ~ISOAfter(store.expiry, today)) => ~r.value
        /\ (store.kind # "object" \/ ~Holds(store.prefsKind) \/ ~Holds(store.expiryKind))
              => ~r.value

C2_Witness ==
    /\ store.kind = "object" /\ store.prefsKind = "map" /\ store.expiryKind = "iso"
    /\ lastWrite.by = "savePreferences"
    /\ store.expiry = toISOString(now)
    /\ ~Valid(store)

(***************************************************************************)
(* C3.  After a successful savePreferences(P), whatever the store held     *)
(* before, at every time before six months have passed the stored record   *)
(* is valid and its preferences are P; the record is the one built from P  *)
(* alone.                                                                  *)
(***************************************************************************)
SavedPrefs == CallsTo(step.calls, "savePreferences")[1].prefs

C3_WriteThenRead ==
    (lastWrite.by = "savePreferences" /\ step.event = "visit"
        /\ ISOAfter(SixMonthsAfter(lastWrite.day), toISOString(now))) =>
        /\ Valid(store)
        /\ getPreferences(store) = [isNull |-> FALSE, prefs |-> SavedPrefs]
        /\ store = RawObject("map", SavedPrefs, "iso", store.expiry, "1.0")

C3_Witness ==
    /\ lastWrite.by = "savePreferences" /\ step.event = "visit"
    /\ now > lastWrite.day + 180
    /\ ISOAfter(SixMonthsAfter(lastWrite.day), toISOString(now))
    /\ SavedPrefs.analytics = "true" /\ SavedPrefs.ads = "false"
    /\ Valid(store)

(***************************************************************************)
(* C4.  Every record written to the store, by any user action, has         *)
(* essential = true; accept-all writes analytics, personalization and ads  *)
(* all true, reject-all writes all three false.                            *)
(***************************************************************************)
C4_EssentialAlwaysTrue ==
    LET w == Attempts(step.calls) IN
    /\ \A i \in 1..Len(w) : w[i].rec.prefs.essential = "true"
    /\ lastWrite.by # "none" => store.prefsKind = "map" /\ store.prefs.essential = "true"
    /\ step.event = "accept-all" =>
          \A i \in 1..Len(w) : Categories(w[i].rec.prefs) = AllTrue
    /\ step.event = "reject-all" =>
          \A i \in 1..Len(w) : Categories(w[i].rec.prefs) = EssentialOnly

C4_Witness ==
    /\ step.event = "accept-all"
    /\ Len(CallsTo(step.calls, "setItem")) = 1
    /\ Categories(store.prefs) = AllTrue

(***************************************************************************)
(* C5.  A terminal transition (accept-all, reject-all, custom save,        *)
(* Escape in MainVisible) calls localStorage.setItem exactly once, also    *)
(* when the control's listener and the document's listener both run for    *)
(* the click; no operation calls it twice.  A call that throws is counted. *)
(***************************************************************************)
C5_OneWritePerTerminal ==
    LET w == Attempts(step.calls) IN
    /\ Len(w) <= 1
    /\ (listeners /\ step.event \in {"accept-all", "reject-all", "submit"}) => Len(w) = 1
    /\ (listeners /\ step.event = "escape" /\ step.before = "MainVisible") => Len(w) = 1
    /\ (Len(CallsTo(step.calls, "setItem")) = 1 /\ page = "loaded") =>
          store = CallsTo(step.calls, "setItem")[1].rec

C5_Witness ==
    /\ step.event = "accept-all" /\ listeners
    /\ Len(CallsTo(step.calls, "hideBanner")) = 2
    /\ Len(CallsTo(step.calls, "setItem")) = 1
    /\ Phase = "Hidden"

(***************************************************************************)
(* C6.  An operation of the consent state machine that persists a record   *)
(* also, in the same step, calls applyPreferences with the preferences of  *)
(* that record and shows a success toast; applyPreferences is never called *)
(* with other values than those of the record just written.                *)
(***************************************************************************)
C6_PersistAppliesAndToasts ==
    LET c == step.calls IN
    step.event # "fallback-accept" =>
        /\ \A i \in 1..Len(c) : c[i].op = "setItem" =>
              /\ \E j \in (i + 1)..Len(c) :
                    c[j].op = "applyPreferences" /\ c[j].prefs = c[i].rec.prefs
              /\ \E k \in (i + 1)..Len(c) : c[k].op = "showToast" /\ c[k].type = "success"
        /\ \A j \in 1..Len(c) : c[j].op = "applyPreferences" =>
              \E i \in 1..(j - 1) : c[i].op = "setItem" /\ c[i].rec.prefs = c[j].prefs
        /\ (page = "loaded" /\ Len(CallsTo(c, "setItem")) > 0) => applied = store.prefs

C6_Witness ==
    /\ step.event = "submit"
    /\ Len(CallsTo(step.calls, "setItem")) = 1
    /\ Len(CallsTo(step.calls, "applyPreferences")) = 1
    /\ applied = store.prefs
    /\ Len(toasts) > 0

(***************************************************************************)
(* C7.  From MainVisible the customize event lands in SettingsVisible,     *)
(* with the settings panel revealed and the banner still displayed; from   *)
(* SettingsVisible the back event returns to MainVisible; neither writes   *)
(* to the store.  "Lands" is the state once the timers have run.           *)
(***************************************************************************)
C7_CustomizeAndBack ==
    /\ (listeners /\ step.event = "customize" /\ step.shown = "MainVisible"
          /\ timers = <<>>) => Phase = "SettingsVisible"
    /\ (listeners /\ step.event = "back" /\ step.shown = "SettingsVisible"
          /\ timers = <<>>) => Phase = "MainVisible"
    /\ step.event \in {"customize", "back"} => Attempts(step.calls) = <<>>

(***************************************************************************)
(* C8.  The Escape key does what the phase asks for: pressed in            *)
(* SettingsVisible it makes no write and the phase comes back to           *)
(* MainVisible as with back; pressed in MainVisible it makes one write of  *)
(* the essential-only set and, the write done, the phase is Hidden as with *)
(* reject-all; pressed in Hidden it changes nothing: it calls no method    *)
(* and the store keeps the record it held.                                 *)
(***************************************************************************)
C8_EscapeByPhase ==
    LET w == Attempts(step.calls) IN
    (listeners /\ step.event = "escape") =>
        /\ step.shown = "SettingsVisible" =>
              w = <<>> /\ (timers = <<>> => Phase = "MainVisible")
        /\ step.shown = "MainVisible" =>
              /\ Len(w) = 1
              /\ Categories(w[1].rec.prefs) = EssentialOnly
              /\ w[1].op = "setItem" => Phase = "Hidden"
        /\ step.shown = "Hidden" => step.calls = <<>>

(***************************************************************************)
(* C9.  After a page load and a custom form submit with any combination    *)
(* of the three checkboxes, the store holds a valid record with exactly    *)
(* those values and essential = true, its expiry is about six months       *)
(* ahead, and the phase is Hidden.  (The write is taken to succeed.)       *)
(***************************************************************************)
C9_CustomSaveEndToEnd ==
    (page = "loaded" /\ step.event = "submit"
        /\ CallsTo(step.calls, "setItemThrew") = <<>>) =>
        /\ store.kind = "object" /\ store.prefsKind = "map"
        /\ Categories(store.prefs) =
              [essential |-> "true",
               analytics |-> IF step.input.analytics THEN "true" ELSE "false",
               personalization |-> IF step.input.personalization THEN "true" ELSE "false",
               ads |-> IF step.input.ads THEN "true" ELSE "false"]
        /\ Valid(store)
        /\ store.expiryKind = "iso"
        /\ ParseISO(store.expiry) - now \in 181..186
        /\ Phase = "Hidden"

C9_Witness ==
    /\ page = "loaded" /\ step.event = "submit"
    /\ storeAtLoad = Absent
    /\ step.input = [analytics |-> TRUE, personalization |-> FALSE, ads |-> FALSE]
    /\ Categories(store.prefs) =
          [essential |-> "true", analytics |-> "true", personalization |-> "false",
           ads |-> "false"]
    /\ Valid(store)
    /\ timers = <<>> /\ bannerDisplay = "none"

(***************************************************************************)
(* C10.  On a page load where the store holds a valid unexpired record     *)
(* the banner stays hidden and applyPreferences is called once with the    *)
(* stored prefs, so that window.cookiePreferences equals the stored prefs  *)
(* without any user action.                                                *)
(***************************************************************************)
C10_InitAppliesStored ==
    (page = "loaded" /\ step.event = "init" /\ mgrBanner /\ Valid(storeAtLoad)) =>
        /\ Phase = "Hidden"
        /\ Len(CallsTo(step.calls, "applyPreferences")) = 1
        /\ applied = getPreferences(storeAtLoad).prefs

(***************************************************************************)
(* C11.  showCookieSettings() called in any phase (Hidden after init with  *)
(* a valid record, Hidden after a choice of this page view, MainVisible,   *)
(* SettingsVisible) leads, once the timers have run, to SettingsVisible    *)
(* with the banner displayed and the settings panel revealed, and makes no *)
(* write.                                                                  *)
(***************************************************************************)
C11_ShowSettingsFromAnyPhase ==
    (page = "loaded" /\ mgrBanner /\ step.event = "showCookieSettings") =>
        /\ Attempts(step.calls) = <<>>
        /\ timers = <<>> =>
              /\ Phase = "SettingsVisible"
              /\ bannerDisplay = "block" /\ bannerOpacity # "0"
              /\ ~settingsHidden

(***************************************************************************)
(* C12.  getPreferences() returns the stored preference set when the       *)
(* stored record is valid and null whenever it is not: for an absent,      *)
(* malformed, field-missing or expired record.                             *)
(***************************************************************************)
C12_GetPreferencesOnlyWhenValid ==
    LET r == getPreferences(store) IN
    /\ Valid(store) => ~r.isNull /\ r.prefs = store.prefs
    /\ ~Valid(store) => r.isNull

(***************************************************************************)
(* C13.  When localStorage.setItem throws during accept-all, reject-all,   *)
(* custom save or Escape, the fault is caught, an error toast is shown,    *)
(* the store is left as it was, and applyPreferences is still called with  *)
(* the chosen preferences, which window.cookiePreferences then holds.      *)
(***************************************************************************)
C13_StorageFaultStillApplies ==
    LET c == step.calls IN
    (page = "loaded" /\ listeners
        /\ step.event \in {"accept-all", "reject-all", "submit", "escape"}
        /\ CallsTo(c, "setItemThrew") # <<>>) =>
        /\ \E k \in 1..Len(c) : c[k].op = "showToast" /\ c[k].type = "error"
        /\ CallsTo(c, "setItem") = <<>>
        /\ \E j \in 1..Len(c) :
              c[j].op = "applyPreferences"
                 /\ c[j].prefs = CallsTo(c, "savePreferences")[1].prefs
        /\ applied = CallsTo(c, "savePreferences")[1].prefs

(***************************************************************************)
(* C14.  When the document holds no #cookie-banner as init runs, init      *)
(* returns at once: no listener is installed, the store plays no part and  *)
(* is not written, no toast is shown, nothing of the page is changed; a    *)
(* later showCookieSettings() returns without effect, also when a fallback *)
(* banner has been put into the document since.                            *)
(***************************************************************************)
C14_NoBannerNoEffect ==
    [][(page' = "loaded" /\ ~mgrBanner'
          /\ step'.event \in {"init", "showCookieSettings"}) =>
        /\ step'.calls = <<>>
        /\ store' = store
        /\ ~listeners' /\ toasts' = <<>> /\ timers' = <<>> /\ applied' = NoPrefs
        /\ step'.event = "init" =>
              /\ bannerDisplay' = "" /\ bannerOpacity' = "" /\ ~bannerVisibleClass'
              /\ settingsHidden'
        /\ step'.event = "showCookieSettings" =>
              UNCHANGED <<bannerDisplay, bannerOpacity, bannerVisibleClass,
                          settingsHidden, contentDisplay, contentOpacity, lastWrite>>
    ]_vars

C14_Witness ==
    /\ page = "loaded" /\ ~mgrBanner
    /\ markup = "fallback"
    /\ step.event = "showCookieSettings"
    /\ Valid(store) /\ bannerDisplay = ""

(***************************************************************************)
(* Vocabulary of the properties of the loading.                            *)
(***************************************************************************)
\* Nothing of the loading is under way any more.
LoaderQuiet ==
    /\ loader.fileRun /\ loader.dcl = "fired"
    /\ loader.pc \in {"done", "failed"}
    /\ loader.legacy # "fetching"
    /\ "loading" \notin {loader.cssLink, loader.scriptEl, loader.legacyLink,
                         loader.legacyScript}

HasBanner(kind) == \E i \in 1..Len(loader.banners) : loader.banners[i] = kind

\* What the CookieResourceLoader did to the document, in order.
Did(what) == SelectSeq(loader.log, LAMBDA e : e.who = "loader" /\ e.what = what)

CssFailed == loader.cssLink = "failed" \/ loader.cssTimeout.state = "fired"

ScriptFailed == loader.scriptEl = "failed" \/ loader.jsTimeout.state = "fired"

(***************************************************************************)
(* C15.  Once the loader has loaded the stylesheet, injected the markup    *)
(* and loaded the script, and nothing is under way any more, a             *)
(* CookieManager has been constructed and its init has run: the phase is   *)
(* Hidden or MainVisible.                                                  *)
(***************************************************************************)
C15_LoadedThenInitialized ==
    (LoaderQuiet /\ loader.pc = "done"
        /\ loader.cssLink = "loaded" /\ loader.scriptEl = "loaded"
        /\ Did("markup-injected") # <<>>) =>
        /\ loader.managers >= 1
        /\ page = "loaded" /\ mgrBanner /\ step.event = "init"
        /\ Phase \in {"Hidden", "MainVisible"}

(***************************************************************************)
(* C16.  The asset loads are sequenced style, markup, script: no fetch of  *)
(* the markup begins before a stylesheet load has completed, and no script *)
(* element is appended before banner markup has been injected.             *)
(***************************************************************************)
C16_StyleMarkupScript ==
    \A i \in 1..Len(loader.log) :
        /\ loader.log[i].what = "fetch-start" =>
              \E j \in 1..(i - 1) : loader.log[j].what = "css-loaded"
        /\ loader.log[i].what = "script-appended" =>
              \E j \in 1..(i - 1) : loader.log[j].what = "markup-injected"

(***************************************************************************)
(* C17.  The retry loop of the markup stops at the first success or after  *)
(* RETRY_ATTEMPTS attempts: no attempt follows a success, a delay is       *)
(* waited between two attempts and none after the last, the delays do not  *)
(* shrink; after fail, fail, succeed the markup is loaded with exactly 3   *)
(* attempts made and the loader goes on to the script.                     *)
(***************************************************************************)
C17_RetryStops ==
    LET n == Len(loader.outcomes) IN
    /\ loader.attempt <= RETRY_ATTEMPTS
    /\ n = IF loader.pc = "html" THEN loader.attempt - 1 ELSE loader.attempt
    /\ \A i \in 1..(n - 1) : loader.outcomes[i] = "failed"
    /\ Len(loader.delays) = IF loader.pc = "backoff" THEN loader.attempt
                            ELSE IF loader.attempt = 0 THEN 0 ELSE loader.attempt - 1
    /\ \A i \in 2..Len(loader.delays) : loader.delays[i] >= loader.delays[i - 1]
    /\ (n >= 1 /\ loader.outcomes[n] = "succeeded") =>
          /\ "html" \in loader.loadedResources
          /\ loader.pc \in {"js", "done", "failed"}
          /\ loader.pc = "failed" => ScriptFailed
    /\ loader.outcomes = <<"failed", "failed", "succeeded">> =>
          loader.attempt = 3 /\ Len(loader.delays) = 2

C17_Witness ==
    /\ loader.outcomes = <<"failed", "failed", "succeeded">>
    /\ loader.delays = <<RETRY_DELAY + 499, 2 * RETRY_DELAY>>
    /\ loader.pc = "done"
    /\ LoaderQuiet

(***************************************************************************)
(* C18.  Each of the three loads has a timeout of 5 s and is given up only *)
(* after 3 attempts: when the loading has failed, the load that failed has *)
(* been attempted RETRY_ATTEMPTS times, and the loads after it have been   *)
(* attempted too.                                                          *)
(***************************************************************************)
C18_ThreeAttemptsEach ==
    /\ \A t \in {loader.cssTimeout, loader.htmlTimeout, loader.jsTimeout} :
          t.state # "none" => t.ms = RESOURCE_TIMEOUT
    /\ loader.pc = "failed" =>
          /\ CssFailed => Len(Did("css-appended")) = RETRY_ATTEMPTS
          /\ ScriptFailed => Len(Did("script-appended")) = RETRY_ATTEMPTS
          /\ (~CssFailed /\ ~ScriptFailed) => Len(Did("fetch-start")) = RETRY_ATTEMPTS
          /\ Did("fetch-start") # <<>>

(***************************************************************************)
(* C19.  When all RETRY_ATTEMPTS fetches of the markup have failed, the    *)
(* loading ends with the fallback banner in the document, the fault having *)
(* been handed to handleLoadError once.                                    *)
(***************************************************************************)
C19_MarkupFailureGivesFallback ==
    (loader.pc = "failed" /\ loader.attempt = RETRY_ATTEMPTS
        /\ "html" \notin loader.loadedResources) =>
        /\ HasBanner("fallback")
        /\ loader.errors = <<"sequential_loading">>

(***************************************************************************)
(* C20.  When the loading of any one asset has failed for good the         *)
(* fallback banner is injected, so that with the loading over the document *)
(* holds either the full banner with its script loaded or the fallback     *)
(* banner.                                                                 *)
(***************************************************************************)
C20_AlwaysAConsentMechanism ==
    /\ loader.pc = "failed" => HasBanner("fallback")
    /\ (LoaderQuiet /\ loader.pc \in {"done", "failed"}) =>
          \/ HasBanner("full") /\ loader.executed > 0
          \/ HasBanner("fallback")

(***************************************************************************)
(* C21.  The CookieResourceLoader is idempotent for each asset: it appends *)
(* a stylesheet link only to a document that holds no cookie.css link, a   *)
(* script only to a document that holds no cookie.js script, and it        *)
(* fetches and injects the markup only when the document holds no          *)
(* #cookie-banner; an asset that is present is skipped.                    *)
(***************************************************************************)
C21_PresentAssetSkipped ==
    \A i \in 1..Len(loader.log) :
        LET e == loader.log[i] IN
        e.who = "loader" =>
            /\ e.what = "css-appended" => e.links = 2
            /\ e.what = "script-appended" => e.scripts = 1
            /\ e.what = "markup-injected" => e.banners = 1
            /\ e.what = "fetch-start" => e.banners = 0

(***************************************************************************)
(* C22.  A fetched markup is accepted only when it is non-empty and holds  *)
(* the #cookie-banner element; after any other answer nothing has been     *)
(* injected by the loader, 'html' is not marked as loaded, and the attempt *)
(* is followed by a delay and a new attempt or, the attempts used up, by   *)
(* handleLoadError.                                                        *)
(***************************************************************************)
C22_OnlyValidMarkupInjected ==
    /\ ("html" \in loader.loadedResources \/ Did("markup-injected") # <<>>
          \/ Did("markup-present") # <<>>) => loader.lastOutcome = "valid"
    /\ loader.lastOutcome \notin {"none", "valid"} =>
          /\ loader.pc \in {"backoff", "html", "failed"}
          /\ loader.pc = "html" => loader.attempt = Len(loader.outcomes) + 1
          /\ loader.pc = "backoff" => loader.attempt < RETRY_ATTEMPTS
          /\ loader.pc = "failed" =>
                loader.attempt = RETRY_ATTEMPTS /\ loader.errors = <<"sequential_loading">>
          /\ \A i \in 1..Len(loader.banners) :
                loader.banners[i] = "full" => Did("markup-injected") = <<>>

C22_Witness ==
    /\ loader.lastOutcome = "no-element"
    /\ loader.outcomes = <<"failed", "failed", "failed">>
    /\ loader.pc = "failed"
    /\ loader.banners = <<"fallback">>

(***************************************************************************)
(* C29.  The document never holds more than one element with the id       *)
(* cookie-banner, whatever the outcome of the CookieResourceLoader and     *)
(* however its markup fetch and the one of the loader at the top of the    *)
(* file interleave.                                                        *)
(***************************************************************************)
C29_OneBannerElement ==
    Len(loader.banners) <= 1

(***************************************************************************)
(* C30.  getLoadingStatus().isComplete is true only if                     *)
(* loadResourcesSequentially has ended without handleLoadError: after a    *)
(* stylesheet or script load has been rejected by its timeout no later     *)
(* onload makes the status complete.                                       *)
(***************************************************************************)
C30_CompleteOnlyWithoutError ==
    getLoadingStatus(loader).isComplete =>
        /\ loader.pc = "done"
        /\ loader.errors = <<>>
        /\ loader.cssTimeout.state # "fired" /\ loader.jsTimeout.state # "fired"

(***************************************************************************)
(* C23.  The accept control of the fallback banner writes under            *)
(* STORAGE_KEY a record with essential alone granted and an expiry six     *)
(* months of thirty days ahead; on every later day before that expiry      *)
(* hasValidPreferences accepts the record and a page load with the banner  *)
(* present ends Hidden, and from the expiry on the record is refused.      *)
(***************************************************************************)
C23_FallbackRecordValid ==
    lastWrite.by = "fallback" =>
        /\ store = lastWrite.text
        /\ store.kind = "object" /\ store.prefsKind = "map" /\ store.expiryKind = "iso"
        /\ store.prefs.essential = "true"
        /\ \A c \in {"analytics", "personalization", "ads"} : store.prefs[c] # "true"
        /\ ParseISO(store.expiry) = lastWrite.day + 180
        /\ Valid(store) <=> now < lastWrite.day + 180
        /\ now < lastWrite.day + 180 =>
              LET s == init([Blank EXCEPT !.mgrBanner = TRUE], now)
              IN  PhaseOf(s) = "Hidden" /\ ~s.listeners /\ s.toasts = <<>>

C23_Witness ==
    /\ lastWrite.by = "fallback"
    /\ step.event = "fallback-accept"
    /\ now = lastWrite.day + 179
    /\ Valid(store)

(***************************************************************************)
(* C24.  Every toast is transient: a toast in the document is later gone   *)
(* from it with no user event needed (the timers of showToast take it away *)
(* while the page stays open).  An operation that saves a record makes     *)
(* exactly one toast, of type success.  No toast stands in the way of a    *)
(* transition: each handler does, with toasts in the document, what it     *)
(* does without them, and a timer callback likewise.                       *)
(***************************************************************************)
SameApartFromToasts(a, b) ==
    /\ [a EXCEPT !.toasts = <<>>] = [b EXCEPT !.toasts = <<>>]
    /\ a.toasts = toasts \o b.toasts

NoToasts == [Cur EXCEPT !.toasts = <<>>]

ToastsStandAside ==
    toasts # <<>> =>
        /\ \A th \in BOOLEAN :
              /\ SameApartFromToasts(handleAcceptAll(Cur, now, th),
                                     handleAcceptAll(NoToasts, now, th))
              /\ SameApartFromToasts(handleKeyDown(Cur, markup, "Escape", now, th),
                                     handleKeyDown(NoToasts, markup, "Escape", now, th))
              /\ SameApartFromToasts(handleFormSubmit(Cur, TRUE, FALSE, TRUE, now, th),
                                     handleFormSubmit(NoToasts, TRUE, FALSE, TRUE, now, th))
        /\ SameApartFromToasts(handleCustomize(Cur, markup),
                               handleCustomize(NoToasts, markup))
        /\ SameApartFromToasts(handleBack(Cur, markup), handleBack(NoToasts, markup))
        /\ SameApartFromToasts(showCookieSettings(Cur, markup),
                               showCookieSettings(NoToasts, markup))
        /\ SameApartFromToasts(documentClick(Cur, "BUTTON"),
                               documentClick(NoToasts, "BUTTON"))
        /\ \A kind \in {"hide", "customize", "back"} :
              SameApartFromToasts(timerCallback(Cur, kind), timerCallback(NoToasts, kind))

OneToastPerSave ==
    LET c == step.calls IN
    (step.event # "fallback-accept" /\ Len(CallsTo(c, "setItem")) > 0) =>
        /\ Len(CallsTo(c, "setItem")) = 1
        /\ Len(CallsTo(c, "showToast")) = 1
        /\ CallsTo(c, "showToast")[1].type = "success"

C24_ToastsTransient ==
    /\ [](OneToastPerSave /\ ToastsStandAside)
    /\ (toasts # <<>>) ~> (toasts = <<>>)

C24_Witness ==
    /\ page = "loaded"
    /\ step.event = "accept-all"
    /\ Len(CallsTo(step.calls, "showToast")) = 1
    /\ events = MaxEvents
    /\ toasts = <<>>

(***************************************************************************)
(* C25.  After init has found no valid record, the banner is hidden or on  *)
(* its way to be hidden only through a choice: then the store holds a      *)
(* valid record, or a persistence failure has been reported (by the last   *)
(* operation, or by a toast still in the document).  A click on customize, *)
(* on back or on a button elsewhere in the page does not call hideBanner.  *)
(***************************************************************************)
FaultReported ==
    \/ \E i \in 1..Len(step.calls) :
          step.calls[i].op = "showToast" /\ step.calls[i].type = "error"
    \/ \E i \in 1..Len(toasts) : toasts[i].type = "error"

HidePending == \E i \in 1..Len(timers) : timers[i].kind = "hide"

C25_HiddenOnlyByChoice ==
    (page = "loaded" /\ mgrBanner /\ listeners) =>
        /\ (bannerDisplay = "none" \/ bannerOpacity = "0" \/ HidePending) =>
              Valid(store) \/ FaultReported
        /\ step.event \in {"customize", "back", "other-button"} =>
              CallsTo(step.calls, "hideBanner") = <<>>

(***************************************************************************)
(* C26.  Once accept-all or a custom save has written its record, an       *)
(* Escape key press later in the same page view leaves the stored record   *)
(* as the choice wrote it, whether the 300 ms hide timer has run or not.   *)
(***************************************************************************)
C26_EscapeKeepsChoice ==
    [][(/\ page = "loaded"
        /\ step.event \in {"accept-all", "submit"}
        /\ Len(Writes(step.calls)) = 1
        /\ events' = events + 1
        /\ step'.event = "escape") => store' = store]_vars

(***************************************************************************)
(* C27.  After a customize event the next Escape key press is handled as   *)
(* back and attempts no write, whether the 300 ms timer that reveals the   *)
(* settings panel has run or not.                                          *)
(***************************************************************************)
C27_EscapeAfterCustomizeIsBack ==
    [][(/\ page = "loaded" /\ listeners
        /\ step.event = "customize"
        /\ CallsTo(step.calls, "handleCustomize") # <<>>
        /\ CallsTo(step.calls, "hideBanner") = <<>>
        /\ events' = events + 1
        /\ step'.event = "escape") =>
            /\ Attempts(step'.calls) = <<>>
            /\ CallsTo(step'.calls, "handleBack") # <<>>
            /\ store' = store]_vars

(***************************************************************************)
(* C28.  With the banner displayed (showBanner has run in this page view   *)
(* and the banner has not been taken off the page) every control does its  *)
(* work: accept-all, reject-all and the form submit make their write,      *)
(* customize and back run their handlers, Escape is handled; and a submit  *)
(* of the form is never left to the browser's default, also after a page   *)
(* load that found a valid record and a later showCookieSettings().        *)
(***************************************************************************)
C28_ControlsOperative ==
    /\ step.event # "submit-default"
    /\ (page = "loaded" /\ bannerVisibleClass
          /\ step.before \in {"MainVisible", "SettingsVisible"}) =>
          /\ step.event \in {"accept-all", "reject-all", "submit"} =>
                Len(Attempts(step.calls)) = 1
          /\ step.event = "customize" => CallsTo(step.calls, "handleCustomize") # <<>>
          /\ step.event = "back" => CallsTo(step.calls, "handleBack") # <<>>
          /\ step.event = "escape" => step.calls # <<>>

=============================================================================
